---------------------------- MODULE Spec2Model ----------------------------
(***************************************************************************)
(* west-nix: the `west nix` extension command (src/west-nix.py).           *)
(*                                                                         *)
(* Nix.do_run resolves the projects of a west manifest into a west.nix     *)
(* expression and keeps west-nix-cache.json, a table from a digest of      *)
(* (url, revision) to the content hash nix-prefetch-git returned.          *)
(*                                                                         *)
(* Text is a sequence of tokens: a token is one character of a value that  *)
(* comes from the manifest ("a", "'", "\"" ...), one path component, or    *)
(* one fixed piece of a template of the source.  The files on disk, the    *)
(* manifest, the environment and the answers of nix-prefetch-git are the   *)
(* inputs of a run.                                                        *)
(***************************************************************************)
EXTENDS Integers, Sequences, FiniteSets, TLC

VARIABLES
    manifest,            \* manifest.projects, in manifest order
    extension,           \* what extension_commands() and get_blobs() supply
    zephyr_base,         \* os.environ.get("ZEPHYR_BASE")
    cacheFile,           \* west-nix-cache.json on disk
    westNixFile,         \* west.nix on disk
    pc,                  \* position of do_run
    blobs,               \* local `blobs`
    project_hashes,      \* local `project_hashes`: the loaded table
    new_project_hashes,  \* local `new_project_hashes`: the table written back
    paths,               \* local `paths`: the LinkPath list
    zephyr_modules,      \* local `zephyr_modules`
    i,                   \* index in manifest.projects of the next project
    west_nix,            \* what was printed to the open west.nix, one text per print()
    error,               \* the exception that ended the run, or NoError
    calls,               \* history: the calls of _nix_prefetch_git in this run
    run,                 \* history: number of the current run
    before,              \* history: the two files as they were when the run began
    prev                 \* history: inputs and outcome of the previous run

vars == << manifest, extension, zephyr_base, cacheFile, westNixFile, pc, blobs,
           project_hashes, new_project_hashes, paths, zephyr_modules, i,
           west_nix, error, calls, run, before, prev >>

-----------------------------------------------------------------------------
(* Bounds of the model *)

MaxProjects == 2
MaxBlobs == 1
MaxRuns == 2

-----------------------------------------------------------------------------
(* Values *)

None == "None"
NoError == "NoError"
SQ == "'"
DQ == "\""
NL == "\n"
SLASH == "/"
DOTDOT == ".."
Margin == "<margin>"
NoUrl == << >>

Range(s) == { s[k] : k \in 1..Len(s) }

RECURSIVE Concat(_)
Concat(ss) == IF ss = << >> THEN << >> ELSE Head(ss) \o Concat(Tail(ss))

\* The sequences of at most n distinct members of S
RECURSIVE DistinctSeqs(_, _)
DistinctSeqs(S, n) ==
    IF n = 0 THEN { << >> }
    ELSE LET shorter == DistinctSeqs(S, n - 1)
         IN  shorter \cup
             { Append(sx[1], sx[2]) :
                 sx \in { tx \in shorter \X S : tx[2] \notin Range(tx[1]) } }

IsPrefix(s, t) == Len(s) <= Len(t) /\ SubSeq(t, 1, Len(s)) = s

-----------------------------------------------------------------------------
(* Files *)

NoFile == [exists |-> FALSE, text |-> << >>]
File(text) == [exists |-> TRUE, text |-> text]

-----------------------------------------------------------------------------
(* JSON values of the cache file.  "other" stands for every JSON value     *)
(* that is no object (a list, a string, a number, null).                   *)

EmptyTable == << >>
JObject(entries) == [kind |-> "object", entries |-> entries]
JOther == [kind |-> "other", entries |-> EmptyTable]
JAbsent == [kind |-> "absent", entries |-> EmptyTable]

\* json.dump of {"url": ..., "rev": ..., "hash": ...}
Entry(url, rev, hash) == [kind |-> "object", url |-> url, rev |-> rev, hash |-> hash]
\* an entry that is an object without a "hash" member, or whose hash is null
EntryNoHash == [kind |-> "object", url |-> NoUrl, rev |-> << >>, hash |-> None]
\* an entry that is no object
EntryOther == [kind |-> "other", url |-> NoUrl, rev |-> << >>, hash |-> None]

CacheMissing == [kind |-> "missing", project_hashes |-> JAbsent]
CacheInvalid == [kind |-> "invalid", project_hashes |-> JAbsent]
CacheOther == [kind |-> "other", project_hashes |-> JAbsent]
CacheObject(ph) == [kind |-> "object", project_hashes |-> ph]

-----------------------------------------------------------------------------
(* The cache key, lines 97-101.  The digest is fed the bytes of the url,   *)
(* then the bytes of the revision, then b"manifest-rev"; sha256 is taken   *)
(* as injective, so a key is represented by the bytes the digest was fed.  *)

Tag == "manifest-rev"

CacheKey(url, revision) == (url \o revision) \o << Tag >>

\* the lookup consults what this run has resolved before the loaded table
LookupHash_Accumulated(table, cache_key) ==
    IF cache_key \in DOMAIN new_project_hashes
    THEN [raised |-> FALSE, hash |-> new_project_hashes[cache_key].hash]
    ELSE IF table.kind # "object"
    THEN [raised |-> TRUE, hash |-> None]
    ELSE IF cache_key \notin DOMAIN table.entries
    THEN [raised |-> FALSE, hash |-> None]
    ELSE IF table.entries[cache_key].kind # "object"
    THEN [raised |-> TRUE, hash |-> None]
    ELSE [raised |-> FALSE, hash |-> table.entries[cache_key].hash]

\* project_hashes.get(cache_key, {}).get("hash"), line 104: the value, or
\* raised when the table or the entry is no object (it has no .get)
LookupHash(table, cache_key) ==
    IF table.kind # "object"
    THEN [raised |-> TRUE, hash |-> None]
    ELSE IF cache_key \notin DOMAIN table.entries
    THEN [raised |-> FALSE, hash |-> None]
    ELSE IF table.entries[cache_key].kind # "object"
    THEN [raised |-> TRUE, hash |-> None]
    ELSE [raised |-> FALSE, hash |-> table.entries[cache_key].hash]

\* only what a prefetch answered is recorded: a hash read from the loaded
\* table is not written back
StoreEntry_Prefetched(table, cache_key, entry) ==
    IF project_hashes.kind = "object" /\ cache_key \in DOMAIN project_hashes.entries
    THEN table
    ELSE [k \in DOMAIN table \cup { cache_key } |->
             IF k = cache_key THEN entry ELSE table[k]]

\* new_project_hashes[cache_key] = {...}, lines 108-113
StoreEntry(table, cache_key, entry) ==
    [k \in DOMAIN table \cup { cache_key } |->
        IF k = cache_key THEN entry ELSE table[k]]

\* json.load and cache.setdefault("project_hashes", {}), lines 76-81
LoadCache(file) ==
    IF file.kind \in { "missing", "invalid" }
    THEN [raised |-> FALSE, project_hashes |-> JObject(EmptyTable)]
    ELSE IF file.kind # "object"
    THEN [raised |-> TRUE, project_hashes |-> JAbsent]
    ELSE IF file.project_hashes.kind = "absent"
    THEN [raised |-> FALSE, project_hashes |-> JObject(EmptyTable)]
    ELSE [raised |-> FALSE, project_hashes |-> file.project_hashes]

\* json.dump(new_cache, cache_file, indent=2), lines 85-86 and 206-207
DumpCache(table) == CacheObject(JObject(table))

-----------------------------------------------------------------------------
(* Paths.  An absolute path is a sequence of components; the text of a     *)
(* path joins its components with "/".                                     *)

TopDir == << "top" >>
ManifestDir == << "top", "m" >>

RECURSIVE CommonLen(_, _)
CommonLen(a, b) ==
    IF a = << >> \/ b = << >> \/ Head(a) # Head(b) THEN 0
    ELSE 1 + CommonLen(Tail(a), Tail(b))

\* os.path.relpath(path, start): never raises, climbs with ".."
RelPath(path, start) ==
    LET c == CommonLen(path, start)
        up == [k \in 1..(Len(start) - c) |-> DOTDOT]
        rel == up \o SubSeq(path, c + 1, Len(path))
    IN  IF rel = << >> THEN << "." >> ELSE rel

\* PurePath.relative_to(base): raises ValueError outside base
RelativeTo(path, base) ==
    IF IsPrefix(base, path)
    THEN [raised |-> FALSE, rel |-> SubSeq(path, Len(base) + 1, Len(path))]
    ELSE [raised |-> TRUE, rel |-> << >>]

RECURSIVE JoinText(_)
JoinText(components) ==
    IF components = << >> THEN << >>
    ELSE IF Len(components) = 1 THEN << Head(components) >>
    ELSE << Head(components), SLASH >> \o JoinText(Tail(components))

\* str(Path(text)): a "/" that ends the text or precedes another is dropped
RECURSIVE PathStr(_)
PathStr(text) ==
    IF text = << >> THEN << >>
    ELSE IF Head(text) = SLASH /\ (Len(text) = 1 \/ text[2] = SLASH)
    THEN PathStr(Tail(text))
    ELSE << Head(text) >> \o PathStr(Tail(text))

\* str(a / b) for the text of two relative paths
JoinPath(a, b) == IF a = << "." >> THEN b ELSE (a \o << SLASH >>) \o b

RECURSIVE LastSlash(_)
LastSlash(text) ==
    IF text = << >> THEN 0
    ELSE IF text[Len(text)] = SLASH THEN Len(text)
    ELSE LastSlash(SubSeq(text, 1, Len(text) - 1))

\* str(path.parent)
Parent(text) ==
    IF LastSlash(text) = 0 THEN << "." >>
    ELSE SubSeq(text, 1, LastSlash(text) - 1)

top_dir_relative_to_manifest_dir == JoinText(RelPath(TopDir, ManifestDir))

-----------------------------------------------------------------------------
(* Text: textwrap.dedent, textwrap.indent and the templates.               *)

IndentPrefix == "        "
NixQuote == "''"

\* textwrap.dedent: the margin every line of a template begins with goes
Dedent(text) ==
    SelectSeq([k \in 1..Len(text) |->
                  IF k > 1 /\ text[k] = Margin /\ text[k - 1] = NL
                  THEN << >> ELSE << text[k] >>],
              LAMBDA t : t # << >>)

Flatten(text) == Concat(Dedent(text))

\* textwrap.indent(text, prefix): the prefix goes before every line that
\* holds something
Indent(text) ==
    Concat([k \in 1..Len(text) |->
               IF (k = 1 \/ text[k - 1] = NL) /\ text[k] # NL
               THEN << IndentPrefix, text[k] >> ELSE << text[k] >>])

\* lines 118-126
FetchgitSrc(url, revision, hash_str) ==
    Flatten(<< NL, Margin, "fetchgit {", NL, Margin, "    url = ", DQ >>
            \o url
            \o << DQ, ";", NL, Margin, "    rev = ", DQ >>
            \o revision
            \o << DQ, ";", NL, Margin, "    branchName = \"manifest-rev\";", NL,
                  Margin, "    hash = ", DQ, hash_str, DQ, ";", NL, Margin, "}" >>)

\* line 134
LocalSrc(path) ==
    << DQ, "${" >> \o JoinPath(top_dir_relative_to_manifest_dir, PathStr(path))
        \o << "}", DQ >>

\* lines 146-152
FetchurlSrc(url, sha256) ==
    Flatten(<< NL, Margin, "fetchurl {", NL, Margin, "    url = ", DQ >>
            \o url
            \o << DQ, ";", NL, Margin, "    hash = ", DQ, "sha256:" >>
            \o sha256
            \o << DQ, ";", NL, Margin, "}" >>)

LinkPath(path, src, is_dir) == [path |-> path, src |-> src, is_dir |-> is_dir]

\* lines 158-166
Preamble ==
    << NL, "{ lib, runCommand, lndir, fetchgit, fetchurl }:", NL, NL,
       "runCommand \"west-workspace\" {", NL, "nativeBuildInputs = [ lndir ];", NL,
       "} ", NixQuote, NL >>

\* line 169
EscapedSrc(src) == Indent((<< "${lib.escapeShellArg (" >> \o src) \o << ")}" >>)

\* lines 170-187; print ends the text with a newline
RenderOp(path) ==
    IF path.is_dir
    THEN << NL, "    mkdir -p \"$out\"/", SQ >> \o path.path
         \o << SQ, NL, "    lndir -silent \\", NL >> \o EscapedSrc(path.src)
         \o << " \\", NL, "        \"$out\"/", SQ >> \o path.path \o << SQ, NL >>
    ELSE << NL, "    mkdir -p \"$out\"/", SQ >> \o Parent(path.path)
         \o << SQ, NL, "    ln -s \\", NL >> \o EscapedSrc(path.src)
         \o << " \\", NL, "        \"$out\"/", SQ >> \o path.path \o << SQ, NL >>

Placeholder == "${placeholder \"out\"}"

\* ";".join(...) of line 200
RECURSIVE JoinModules(_)
JoinModules(modules) ==
    IF modules = << >> THEN << >>
    ELSE (<< Placeholder, SLASH >> \o Head(modules))
         \o (IF Len(modules) = 1 THEN << >> ELSE << ";" >> \o JoinModules(Tail(modules)))

\* lines 190-204, given zephyr_base.relative_to(top_dir)
EnvFragment(rel, modules) ==
    << NL, "    cat << EOF > \"$out/.zephyr-env\"", NL,
       "    export ZEPHYR_BASE=${lib.escapeShellArg ", DQ >>
    \o (IF rel = << >> THEN << Placeholder >>
        ELSE << Placeholder, SLASH >> \o JoinText(rel))
    \o << DQ, "}", NL, "    export ZEPHYR_MODULES=${lib.escapeShellArg ", DQ >>
    \o JoinModules(modules)
    \o << DQ, "}", NL, "    EOF", NL, NixQuote, NL >>

-----------------------------------------------------------------------------
(* Inputs of a run *)

Project(name, path, url, revision, active, module) ==
    [name |-> name, path |-> path, url |-> url, revision |-> revision,
     active |-> active, module |-> module]

\* `module` is whether <path>/zephyr/module.yml exists, line 139
pA == Project("A", << "p" >>, << "a" >>, << "b", "c" >>, TRUE, TRUE)
\* another source whose url and revision concatenate to the same bytes
pB == Project("B", << "q" >>, << "a", "b" >>, << "c" >>, TRUE, FALSE)
\* the source of pA at another place of the workspace
pC == Project("C", << "r" >>, << "a" >>, << "b", "c" >>, TRUE, FALSE)
\* a project without url
pL == Project("L", << "l" >>, NoUrl, << >>, TRUE, TRUE)
\* a project that manifest.is_active() rejects
pI == Project("I", << "s" >>, << "d" >>, << "c" >>, FALSE, FALSE)
\* a project whose path and url hold quotes
pQ == Project("Q", << "t", SQ >>, << "e", DQ >>, << "c" >>, TRUE, FALSE)

Projects == { pA, pB, pC, pL, pI, pQ }

Manifests == DistinctSeqs(Projects, MaxProjects)

Blob(abspath, url, sha256) == [abspath |-> abspath, url |-> url, sha256 |-> sha256]

BlobPool == { Blob(<< "top", "m", "b" >>, << "u" >>, << "x" >>),
              Blob(<< "opt", "b" >>, << "v" >>, << "y" >>) }

\* no "zephyr" extension commands; none of them named "blobs"; get_blobs()
Extensions ==
    { [kind |-> "none", blobs |-> << >>], [kind |-> "noblobs", blobs |-> << >>] }
    \cup { [kind |-> "blobs", blobs |-> bs] : bs \in DistinctSeqs(BlobPool, MaxBlobs) }

ZephyrBases ==
    { [set |-> FALSE, path |-> << >>],
      [set |-> TRUE, path |-> << "top", "z" >>],
      [set |-> TRUE, path |-> << "opt", "z" >> ] }

\* the content hashes: h0 is stored in a cache file that precedes the runs,
\* h1 and h2 are what nix-prefetch-git may answer
StoredHash == "h0"
Hashes == { "h1", "h2" }
PrefetchFailures == { "CalledProcessError", "JSONDecodeError" }

\* what a cache file that precedes the runs holds for a project: an entry
\* with a hash, an object without "hash", or a value that is no object
StoredEntry(project, shape) ==
    IF shape = "hash" THEN Entry(project.url, project.revision, StoredHash)
    ELSE IF shape = "nohash" THEN EntryNoHash
    ELSE EntryOther

KeyOf(project) == CacheKey(project.url, project.revision)

\* the tables of a cache file that precedes the runs: pA's key with any of
\* the three shapes, pI's key with a hash
InitTables ==
    { [k \in { KeyOf(p) : p \in ps } |->
          IF k = KeyOf(pA) THEN StoredEntry(pA, shape) ELSE StoredEntry(pI, "hash")] :
        ps \in SUBSET { pA, pI }, shape \in { "hash", "nohash", "other" } }

CacheFiles ==
    { CacheMissing, CacheInvalid, CacheOther, CacheObject(JAbsent), CacheObject(JOther) }
    \cup { CacheObject(JObject(t)) : t \in InitTables }

NoRun == [ok |-> FALSE, manifest |-> << >>]

Locals ==
    /\ pc = "setup"
    /\ blobs = << >>
    /\ project_hashes = JAbsent
    /\ new_project_hashes = EmptyTable
    /\ paths = << >>
    /\ zephyr_modules = << >>
    /\ i = 1
    /\ west_nix = << >>
    /\ error = NoError
    /\ calls = << >>

Init ==
    /\ manifest \in Manifests
    /\ extension \in Extensions
    /\ zephyr_base \in ZephyrBases
    /\ cacheFile \in CacheFiles
    /\ westNixFile = NoFile
    /\ Locals
    /\ run = 1
    /\ before = [cacheFile |-> cacheFile, westNixFile |-> westNixFile]
    /\ prev = NoRun

-----------------------------------------------------------------------------
(* Nix.do_run, step by step *)

env == << manifest, extension, zephyr_base >>
hist == << run, before, prev >>

\* the exception is caught and the run goes on to write the cache
Raise_Continue(e) == pc' = "cache" /\ error' = e

Raise(e) == pc' = "failed" /\ error' = e

\* lines 59-74
GetBlobs(ext) == IF ext.kind = "blobs" THEN ext.blobs ELSE << >>

\* the lookup of the "blobs" command has no default: a missing one is fatal
Setup_NoDefault ==
    /\ pc = "setup"
    /\ IF extension.kind = "blobs"
       THEN blobs' = extension.blobs /\ pc' = "load" /\ UNCHANGED error
       ELSE Raise("StopIteration") /\ UNCHANGED blobs
    /\ UNCHANGED << env, hist, cacheFile, westNixFile, project_hashes,
                    new_project_hashes, paths, zephyr_modules, i, west_nix, calls >>

\* lines 59-74
Setup ==
    /\ pc = "setup"
    /\ blobs' = GetBlobs(extension)
    /\ pc' = "load"
    /\ UNCHANGED << env, hist, cacheFile, westNixFile, project_hashes,
                    new_project_hashes, paths, zephyr_modules, i, west_nix, error, calls >>

\* the table written back begins as a copy of the loaded one: nothing is pruned
NewProjectHashes_Loaded ==
    IF LoadCache(cacheFile).project_hashes.kind = "object"
    THEN LoadCache(cacheFile).project_hashes.entries
    ELSE EmptyTable

\* lines 85-86: new_cache = {} and its "project_hashes" = {}
NewProjectHashes == EmptyTable

\* lines 76-86
Load ==
    /\ pc = "load"
    /\ LET loaded == LoadCache(cacheFile)
       IN  IF loaded.raised
           THEN Raise("AttributeError") /\ UNCHANGED project_hashes
           ELSE /\ project_hashes' = loaded.project_hashes
                /\ pc' = "projects"
                /\ UNCHANGED error
    /\ new_project_hashes' = NewProjectHashes
    /\ UNCHANGED << env, hist, cacheFile, westNixFile, blobs, paths, zephyr_modules,
                    i, west_nix, calls >>

\* the check of line 91 is missing
IsActive_All(project) == TRUE

\* line 91
IsActive(project) == project.active

\* every project is taken for a remote one
HasUrl_Always(project) == TRUE

\* line 95: `if project.url`
HasUrl(project) == project.url # NoUrl

\* the lookup is ignored: every project is prefetched
NeedsPrefetch_Always(hash_str) == TRUE

\* line 105: `if hash_str is None`
NeedsPrefetch(hash_str) == hash_str = None

\* lines 139-140
WithModule(modules, project) ==
    IF project.module THEN Append(modules, project.path) ELSE modules

\* lines 108-129, once hash_str is known
Resolved(project, hash_str) ==
    /\ new_project_hashes' =
           StoreEntry(new_project_hashes, CacheKey(project.url, project.revision),
                      Entry(project.url, project.revision, hash_str))
    /\ paths' = Append(paths, LinkPath(PathStr(project.path),
                                       FetchgitSrc(project.url, project.revision, hash_str),
                                       TRUE))
    /\ zephyr_modules' = WithModule(zephyr_modules, project)
    /\ i' = i + 1
    /\ UNCHANGED << pc, error >>

InLoop == pc = "projects" /\ i <= Len(manifest)

\* lines 91-93
SkipInactive ==
    /\ InLoop
    /\ ~IsActive(manifest[i])
    /\ i' = i + 1
    /\ UNCHANGED << env, hist, cacheFile, westNixFile, pc, blobs, project_hashes,
                    new_project_hashes, paths, zephyr_modules, west_nix, error, calls >>

\* lines 95-129 and 139-140: the hash is in the loaded table
CacheHit ==
    /\ InLoop
    /\ IsActive(manifest[i]) /\ HasUrl(manifest[i])
    /\ LET project == manifest[i]
           found == LookupHash(project_hashes, CacheKey(project.url, project.revision))
       IN  /\ ~found.raised
           /\ ~NeedsPrefetch(found.hash)
           /\ Resolved(project, found.hash)
    /\ UNCHANGED << env, hist, cacheFile, westNixFile, blobs, project_hashes,
                    west_nix, calls >>

\* line 104 raises: the table or the entry is no object
LookupRaises ==
    /\ InLoop
    /\ IsActive(manifest[i]) /\ HasUrl(manifest[i])
    /\ LookupHash(project_hashes,
                  CacheKey(manifest[i].url, manifest[i].revision)).raised
    /\ Raise("AttributeError")
    /\ UNCHANGED << env, hist, cacheFile, westNixFile, blobs, project_hashes,
                    new_project_hashes, paths, zephyr_modules, i, west_nix, calls >>

Call(project, result) ==
    [url |-> project.url, rev |-> project.revision, result |-> result]

\* lines 95-129, 139-140 and 209-224: nix-prefetch-git answers a hash
CacheMiss ==
    /\ InLoop
    /\ IsActive(manifest[i]) /\ HasUrl(manifest[i])
    /\ LET project == manifest[i]
           found == LookupHash(project_hashes, CacheKey(project.url, project.revision))
       IN  /\ ~found.raised
           /\ NeedsPrefetch(found.hash)
           /\ \E hash \in Hashes :
                /\ calls' = Append(calls, Call(project, hash))
                /\ Resolved(project, hash)
    /\ UNCHANGED << env, hist, cacheFile, westNixFile, blobs, project_hashes, west_nix >>

\* lines 106 and 209-224: nix-prefetch-git exits non-zero (check=True) or
\* prints what json.loads rejects
PrefetchFails ==
    /\ InLoop
    /\ IsActive(manifest[i]) /\ HasUrl(manifest[i])
    /\ LET project == manifest[i]
           found == LookupHash(project_hashes, CacheKey(project.url, project.revision))
       IN  /\ ~found.raised
           /\ NeedsPrefetch(found.hash)
           /\ \E e \in PrefetchFailures :
                /\ calls' = Append(calls, Call(project, e))
                /\ Raise(e)
    /\ UNCHANGED << env, hist, cacheFile, westNixFile, blobs, project_hashes,
                    new_project_hashes, paths, zephyr_modules, i, west_nix >>

\* lines 130-140
LocalProject ==
    /\ InLoop
    /\ IsActive(manifest[i]) /\ ~HasUrl(manifest[i])
    /\ paths' = Append(paths, LinkPath(PathStr(manifest[i].path),
                                       LocalSrc(manifest[i].path), TRUE))
    /\ zephyr_modules' = WithModule(zephyr_modules, manifest[i])
    /\ i' = i + 1
    /\ UNCHANGED << env, hist, cacheFile, westNixFile, pc, blobs, project_hashes,
                    new_project_hashes, west_nix, error, calls >>

\* a blob is linked the way a project is
BlobLink_Dir(blob) ==
    LinkPath(JoinText(RelPath(blob.abspath, TopDir)),
             FetchurlSrc(blob.url, blob.sha256), TRUE)

\* lines 143-155, for one blob
BlobLink(blob) ==
    LinkPath(JoinText(RelPath(blob.abspath, TopDir)),
             FetchurlSrc(blob.url, blob.sha256), FALSE)

\* lines 142-155
LinkBlobs ==
    /\ pc = "projects" /\ i > Len(manifest)
    /\ paths' = paths \o [k \in 1..Len(blobs) |-> BlobLink(blobs[k])]
    /\ pc' = "open"
    /\ UNCHANGED << env, hist, cacheFile, westNixFile, blobs, project_hashes,
                    new_project_hashes, zephyr_modules, i, west_nix, error, calls >>

\* The run ends inside `with open(west_nix_path, "w")`: the file object is
\* closed on the way out, which writes what was printed (lines 157-207)
Closed(text) == File(text)

\* What is on disk when a write of the buffered text fails: some of it (the
\* model cuts between two print() calls)
Partial(text) == { File(SubSeq(text, 1, k)) : k \in 0..Len(text) }

\* line 157; open() creates or truncates the file, or raises
OpenWestNix ==
    /\ pc = "open"
    /\ \/ /\ westNixFile' = File(<< >>)
          /\ west_nix' = << >>
          /\ pc' = "preamble"
          /\ UNCHANGED error
       \/ /\ Raise("OSError")
          /\ UNCHANGED << westNixFile, west_nix >>
    /\ UNCHANGED << env, hist, cacheFile, blobs, project_hashes, new_project_hashes,
                    paths, zephyr_modules, i, calls >>

\* lines 158-166
WritePreamble ==
    /\ pc = "preamble"
    /\ west_nix' = << Preamble >>
    /\ pc' = "emit"
    /\ UNCHANGED << env, hist, cacheFile, westNixFile, blobs, project_hashes,
                    new_project_hashes, paths, zephyr_modules, i, error, calls >>

\* `for path in paths`, line 168: the preamble is the first print(), so the
\* next path to print is as far in `paths` as west_nix is long
next_path == Len(west_nix)

\* lines 168-187, for one path
WritePath ==
    /\ pc = "emit" /\ next_path <= Len(paths)
    /\ west_nix' = Append(west_nix, RenderOp(paths[next_path]))
    /\ UNCHANGED << env, hist, cacheFile, westNixFile, pc, blobs, project_hashes,
                    new_project_hashes, paths, zephyr_modules, i, error, calls >>

\* lines 189-204
WriteEnv ==
    /\ pc = "emit" /\ next_path > Len(paths)
    /\ IF ~zephyr_base.set
       THEN pc' = "cache" /\ UNCHANGED << west_nix, westNixFile, error >>
       ELSE LET base == RelativeTo(zephyr_base.path, TopDir)
            IN  IF base.raised
                THEN /\ Raise("ValueError")
                     /\ westNixFile' = Closed(west_nix)
                     /\ UNCHANGED west_nix
                ELSE /\ west_nix' = Append(west_nix, EnvFragment(base.rel, zephyr_modules))
                     /\ pc' = "cache"
                     /\ UNCHANGED << westNixFile, error >>
    /\ UNCHANGED << env, hist, cacheFile, blobs, project_hashes, new_project_hashes,
                    paths, zephyr_modules, i, calls >>

\* print() or the close on the way out raises OSError (lines 158-204)
WriteFails ==
    /\ pc \in { "preamble", "emit" }
    /\ westNixFile' \in Partial(west_nix)
    /\ Raise("OSError")
    /\ UNCHANGED << env, hist, cacheFile, blobs, project_hashes, new_project_hashes,
                    paths, zephyr_modules, i, west_nix, calls >>

\* lines 206-207
WriteCache ==
    /\ pc = "cache"
    /\ cacheFile' = DumpCache(new_project_hashes)
    /\ pc' = "close"
    /\ UNCHANGED << env, hist, westNixFile, blobs, project_hashes, new_project_hashes,
                    paths, zephyr_modules, i, west_nix, error, calls >>

\* lines 206-207: open() raises and leaves the file, or json.dump raises and
\* leaves a truncated file
WriteCacheFails ==
    /\ pc = "cache"
    /\ cacheFile' \in { cacheFile, CacheInvalid }
    /\ westNixFile' = Closed(west_nix)
    /\ Raise("OSError")
    /\ UNCHANGED << env, hist, blobs, project_hashes, new_project_hashes,
                    paths, zephyr_modules, i, west_nix, calls >>

\* the end of the `with` of line 157: west.nix is flushed and closed
CloseWestNix ==
    /\ pc = "close"
    /\ \/ /\ westNixFile' = Closed(west_nix)
          /\ pc' = "done"
          /\ UNCHANGED error
       \/ /\ westNixFile' \in Partial(west_nix)
          /\ Raise("OSError")
    /\ UNCHANGED << env, hist, cacheFile, blobs, project_hashes, new_project_hashes,
                    paths, zephyr_modules, i, west_nix, calls >>

Step ==
    \/ Setup
    \/ Load
    \/ SkipInactive
    \/ CacheHit
    \/ LookupRaises
    \/ CacheMiss
    \/ PrefetchFails
    \/ LocalProject
    \/ LinkBlobs
    \/ OpenWestNix
    \/ WritePreamble
    \/ WritePath
    \/ WriteEnv
    \/ WriteFails
    \/ WriteCache
    \/ WriteCacheFails
    \/ CloseWestNix

Next == Step

Spec == Init /\ [][Next]_vars

-----------------------------------------------------------------------------
(* Several runs of the command, one after the other, on the same workspace: *)
(* the files a run left are what the next run finds, and the manifest may   *)
(* have been edited in between.                                             *)

\* The inputs of the repeated runs: one source at two places, a local and an
\* inactive project, a blob below the workspace root, a base directory below it
RunManifests == DistinctSeqs({ pA, pC, pL, pI }, MaxProjects)

RunExtensions == { e \in Extensions :
                     \A k \in 1..Len(e.blobs) : IsPrefix(TopDir, e.blobs[k].abspath) }

RunZephyrBases == { z \in ZephyrBases : z.set => IsPrefix(TopDir, z.path) }

InitRuns ==
    /\ manifest \in RunManifests
    /\ extension \in RunExtensions
    /\ zephyr_base \in RunZephyrBases
    /\ cacheFile \in { CacheMissing, CacheObject(JOther) }
    /\ westNixFile = NoFile
    /\ Locals
    /\ run = 1
    /\ before = [cacheFile |-> cacheFile, westNixFile |-> westNixFile]
    /\ prev = NoRun

NextRun ==
    /\ pc \in { "done", "failed" }
    /\ run < MaxRuns
    /\ manifest' \in RunManifests
    /\ pc' = "setup"
    /\ blobs' = << >>
    /\ project_hashes' = JAbsent
    /\ new_project_hashes' = EmptyTable
    /\ paths' = << >>
    /\ zephyr_modules' = << >>
    /\ i' = 1
    /\ west_nix' = << >>
    /\ error' = NoError
    /\ calls' = << >>
    /\ run' = run + 1
    /\ before' = [cacheFile |-> cacheFile, westNixFile |-> westNixFile]
    /\ prev' = [ok |-> pc = "done", manifest |-> manifest]
    /\ UNCHANGED << extension, zephyr_base, cacheFile, westNixFile >>

NextRuns == Step \/ NextRun

SpecRuns == InitRuns /\ [][NextRuns]_vars


-----------------------------------------------------------------------------
(* What the properties speak of *)

\* the projects the loop of line 90 has handled
Processed == 1..(i - 1)

Remote(k) == manifest[k].active /\ manifest[k].url # NoUrl

\* the place in `paths` of the link of the k-th project, an active one
PathIndex(k) == Cardinality({ j \in 1..k : manifest[j].active })

\* the cache keys of the active projects of the manifest that have a url
ReferencedKeys == { KeyOf(manifest[k]) : k \in { j \in 1..Len(manifest) : Remote(j) } }

\* the table the run loaded from the cache file it found
LoadedTable == LoadCache(before.cacheFile).project_hashes

KeyPresent(key) == LoadedTable.kind = "object" /\ key \in DOMAIN LoadedTable.entries

\* the table is an object that holds under the key an object whose "hash"
\* is not null
HasHash(table, key) ==
    /\ table.kind = "object"
    /\ key \in DOMAIN table.entries
    /\ table.entries[key].kind = "object"
    /\ table.entries[key].hash # None

\* the key is present and its entry is an object whose "hash" is not null
HashStored(key) ==
    /\ KeyPresent(key)
    /\ LoadedTable.entries[key].kind = "object"
    /\ LoadedTable.entries[key].hash # None

SameSource(p, q) == p.url = q.url /\ p.revision = q.revision

\* the text of a fetch directive with the url, the revision and the hash
Directive(url, rev, hash) ==
    (((<< NL, "fetchgit {", NL, "    url = ", DQ >> \o url)
      \o << DQ, ";", NL, "    rev = ", DQ >>) \o rev)
    \o << DQ, ";", NL, "    branchName = \"manifest-rev\";", NL,
          "    hash = ", DQ, hash, DQ, ";", NL, "}" >>

-----------------------------------------------------------------------------
(* C1: in one run the prefetch is called at most once for one (url,        *)
(* revision): projects with the same url and revision share one call.      *)
C1_OnePrefetchPerKey ==
    \A a, b \in 1..Len(calls) :
        (calls[a].url = calls[b].url /\ calls[a].rev = calls[b].rev) => a = b

(* C2, as stated: no prefetch is ever called for a project whose cache key  *)
(* is present in the loaded cache.                                         *)
C2_PresentKeyNeverPrefetched ==
    \A c \in 1..Len(calls) : ~KeyPresent(CacheKey(calls[c].url, calls[c].rev))

(* C2, amended: no prefetch is called for a project whose cache key is      *)
(* present in the loaded cache with an entry that holds a hash, and the    *)
(* project's fetch directive and its new cache entry carry that hash.      *)
C2_StoredHashNeverPrefetched ==
    /\ \A c \in 1..Len(calls) : ~HashStored(CacheKey(calls[c].url, calls[c].rev))
    /\ \A k \in Processed :
          (Remote(k) /\ HashStored(KeyOf(manifest[k]))) =>
              LET stored == LoadedTable.entries[KeyOf(manifest[k])].hash
              IN  /\ paths[PathIndex(k)].src =
                         Directive(manifest[k].url, manifest[k].revision, stored)
                  /\ new_project_hashes[KeyOf(manifest[k])].hash = stored

C2_Witness ==
    /\ pc = "done"
    /\ calls = << >>
    /\ \E k \in 1..Len(manifest) : Remote(k) /\ HashStored(KeyOf(manifest[k]))

(* C3: after a successful run the keys of the cache file are exactly the    *)
(* cache keys of the active projects with a url, and a key whose hash the  *)
(* run found in the cache keeps that hash.                                 *)
C3_CacheIsReferencedKeys ==
    pc = "done" =>
        /\ cacheFile.kind = "object"
        /\ cacheFile.project_hashes.kind = "object"
        /\ DOMAIN cacheFile.project_hashes.entries = ReferencedKeys
        /\ \A key \in ReferencedKeys :
              HashStored(key) =>
                  cacheFile.project_hashes.entries[key].hash = LoadedTable.entries[key].hash

\* a successful run that dropped a key, added a key and kept a hit
C3_Witness ==
    /\ pc = "done"
    /\ LoadedTable.kind = "object"
    /\ \E key \in DOMAIN LoadedTable.entries : key \notin ReferencedKeys
    /\ \E key \in ReferencedKeys : ~KeyPresent(key)
    /\ \E key \in ReferencedKeys : HashStored(key)

(* C4: when the prefetch fails for a project, whatever its place in the     *)
(* manifest, the run is over and the cache file is the one the run found.  *)
C4_PrefetchFailureKeepsCache ==
    error \in PrefetchFailures => (pc = "failed" /\ cacheFile = before.cacheFile)

\* the prefetch failed for the second project after it answered for the first
C4_Witness ==
    /\ error \in PrefetchFailures
    /\ i = 2
    /\ Len(calls) = 2
    /\ calls[1].result \in Hashes
    /\ before.cacheFile.kind = "object"

(* C5: when the run fails and west.nix on disk is not the whole text the    *)
(* run printed, the cache file is the one the run found: the cache is      *)
(* written only once west.nix is written and closed.                       *)
C5_CacheOnlyAfterExpression ==
    (pc = "failed" /\ westNixFile # File(west_nix)) => cacheFile = before.cacheFile

(* C6: projects that differ in url or revision have different cache keys,   *)
(* and the hash a project is served from the cache was stored for its own  *)
(* url and revision.                                                       *)
C6_KeysSeparateSources ==
    /\ \A a, b \in Processed :
          (Remote(a) /\ Remote(b) /\ ~SameSource(manifest[a], manifest[b])) =>
              KeyOf(manifest[a]) # KeyOf(manifest[b])
    /\ \A k \in Processed :
          (Remote(k) /\ HashStored(KeyOf(manifest[k]))) =>
              /\ LoadedTable.entries[KeyOf(manifest[k])].url = manifest[k].url
              /\ LoadedTable.entries[KeyOf(manifest[k])].rev = manifest[k].revision

\* a cache file that json.load accepts but that has not the expected shape
Malformed(file) ==
    \/ file.kind = "other"
    \/ /\ file.kind = "object"
       /\ \/ file.project_hashes.kind = "other"
          \/ /\ file.project_hashes.kind = "object"
             /\ \E key \in DOMAIN file.project_hashes.entries :
                   file.project_hashes.entries[key].kind # "object"

(* C7: loading the cache never raises; with a missing or malformed cache    *)
(* file the run goes on with an empty cache.                               *)
C7_LoadNeverRaises ==
    /\ error # "AttributeError"
    /\ (pc \notin { "setup", "load" }
            /\ (before.cacheFile.kind \in { "missing", "invalid" } \/ Malformed(before.cacheFile)))
        => project_hashes = JObject(EmptyTable)

(* C8: a successful run that follows a successful run on the same manifest  *)
(* calls no prefetch and leaves west.nix and the cache file as they were.  *)
C8_SecondRunChangesNothing ==
    (pc = "done" /\ prev.ok /\ prev.manifest = manifest) =>
        /\ calls = << >>
        /\ westNixFile = before.westNixFile
        /\ cacheFile = before.cacheFile

\* the active projects, in manifest order, and the blobs supplied
ActiveProjects == SelectSeq(manifest, LAMBDA project : project.active)
SuppliedBlobs == IF extension.kind = "blobs" THEN extension.blobs ELSE << >>

\* the text is the link operation of the project, with whatever hash
IsOpOf(text, project) ==
    IF project.url # NoUrl
    THEN \E hash \in Hashes \cup { StoredHash } :
            text = RenderOp(LinkPath(PathStr(project.path),
                                     FetchgitSrc(project.url, project.revision, hash), TRUE))
    ELSE text = RenderOp(LinkPath(PathStr(project.path), LocalSrc(project.path), TRUE))

RECURSIVE QuoteEnd(_, _, _)
QuoteEnd(text, q, k) ==
    IF k > Len(text) THEN 0
    ELSE IF text[k] = q THEN k
    ELSE QuoteEnd(text, q, k + 1)

\* the place where the "..." string whose content begins at place k ends: a
\* backslash escapes what follows it, "${" leaves the literal
RECURSIVE NixStringEnd(_, _)
NixStringEnd(text, k) ==
    IF k > Len(text) \/ text[k] = "${" THEN 0
    ELSE IF text[k] = "\\" THEN NixStringEnd(text, k + 2)
    ELSE IF text[k] = DQ THEN k
    ELSE NixStringEnd(text, k + 1)

IndexOf(text, token) ==
    CHOOSE k \in 1..Len(text) : text[k] = token /\ \A j \in 1..(k - 1) : text[j] # token

(* C10: in the link operation of a project the '...' word that holds the    *)
(* path ends at the quote the template puts after the path, and the "..."  *)
(* string that holds the url ends at the quote the template puts after the *)
(* url.                                                                    *)
C10_ValuesStayQuoted ==
    \A f \in 2..Len(west_nix) :
        f <= 1 + Len(ActiveProjects) =>
            LET text == west_nix[f]
                project == ActiveProjects[f - 1]
                u == IndexOf(text, "    url = ")
            IN  /\ QuoteEnd(text, SQ, 4) = 4 + Len(PathStr(project.path))
                /\ project.url # NoUrl =>
                      NixStringEnd(text, u + 2) = u + 2 + Len(project.url)

\* the file holds a whole expression: after the preamble, which opens the
\* script string, the last text printed ends with the '' that closes it
Complete(file) ==
    /\ file.exists
    /\ Len(file.text) >= 2
    /\ file.text[1] = Preamble
    /\ LET last == file.text[Len(file.text)]
       IN  Len(last) >= 2 /\ last[Len(last) - 1] = NixQuote /\ last[Len(last)] = NL

(* C11: when a run ends with a prefetch failure or with a path that cannot  *)
(* be made relative, west.nix on disk is the file the run found or a whole *)
(* new expression.                                                         *)
C11_AbortLeavesNoPartialFile ==
    (pc = "failed" /\ error \in PrefetchFailures \cup { "ValueError" }) =>
        (westNixFile = before.westNixFile \/ Complete(westNixFile))

\* the hashes the run resolved for a url and revision: the one stored in the
\* loaded table, and the answers of the prefetch calls for them
ResolvedHashes(project) ==
    (IF HashStored(KeyOf(project))
     THEN { LoadedTable.entries[KeyOf(project)].hash } ELSE { })
    \cup { calls[c].result : c \in { d \in 1..Len(calls) :
                                       /\ calls[d].url = project.url
                                       /\ calls[d].rev = project.revision
                                       /\ calls[d].result \in Hashes } }

(* C12: once every project is handled, and in what a successful run       *)
(* leaves: the link of an active project without url has the local path    *)
(* expression as its source (the workspace root relative to the manifest   *)
(* directory, joined with the project's path), and the project causes no   *)
(* prefetch call and no cache entry; the link of an active project with a  *)
(* url has as its source the fetch directive with the project's url and    *)
(* revision and the hash resolved for them.                                *)
C12_LocalAndRemoteSources ==
    /\ pc \in { "open", "done" } =>
          \A k \in 1..Len(manifest) :
              manifest[k].active =>
                  IF manifest[k].url = NoUrl
                  THEN paths[PathIndex(k)].src =
                           (<< DQ, "${" >>
                            \o JoinPath(JoinText(RelPath(TopDir, ManifestDir)),
                                        PathStr(manifest[k].path)))
                           \o << "}", DQ >>
                  ELSE \E hash \in ResolvedHashes(manifest[k]) :
                           paths[PathIndex(k)].src =
                               Directive(manifest[k].url, manifest[k].revision, hash)
    /\ \A c \in 1..Len(calls) : calls[c].url # NoUrl
    /\ \A key \in DOMAIN new_project_hashes : new_project_hashes[key].url # NoUrl

\* a successful run on a manifest with a project without url and one with
C12_Witness ==
    /\ pc = "done"
    /\ \E k \in 1..Len(manifest) : manifest[k].active /\ manifest[k].url = NoUrl
    /\ \E k \in 1..Len(manifest) : Remote(k)
    /\ Len(paths) >= 2

(* C13: without a blob extension (no "zephyr" extension commands, or none   *)
(* named "blobs") the run has no blobs, does not fail for the lack of      *)
(* them, and a successful run leaves only the links of the projects.       *)
C13_NoExtensionNoBlobs ==
    extension.kind \in { "none", "noblobs" } =>
        /\ blobs = << >>
        /\ pc = "failed" =>
              error \in { "AttributeError", "OSError", "ValueError" } \cup PrefetchFailures
        /\ pc = "done" =>
              /\ Len(paths) = Len(ActiveProjects)
              /\ Len(westNixFile.text) =
                     1 + Len(ActiveProjects) + (IF zephyr_base.set THEN 1 ELSE 0)

\* a successful run with "zephyr" extension commands, none of them "blobs"
C13_Witness ==
    /\ pc = "done"
    /\ extension.kind = "noblobs"
    /\ Len(ActiveProjects) >= 1
    /\ Len(westNixFile.text) >= 2

\* the prefetch calls that answered a hash
Answered == { c \in 1..Len(calls) : calls[c].result \in Hashes }

(* C14: from the load on, project_hashes is the table read from the cache   *)
(* file the run found: resolving hashes adds, changes and removes nothing  *)
(* in it.  What is prefetched goes to new_project_hashes only, and the     *)
(* lookup reads the loaded table only: while the projects are handled,    *)
(* every project handled whose key has no hash in the loaded table was     *)
(* answered by a prefetch call of its own.                                 *)
C14_LoadedTableUntouched ==
    /\ pc \notin { "setup", "load" } => project_hashes = LoadedTable
    /\ pc \in { "projects", "open" } =>
          /\ Cardinality(Answered) =
                 Cardinality({ k \in Processed :
                                 Remote(k) /\ ~HasHash(project_hashes, KeyOf(manifest[k])) })
          /\ \A c \in Answered :
                 /\ CacheKey(calls[c].url, calls[c].rev) \in DOMAIN new_project_hashes
                 /\ ~HasHash(project_hashes, CacheKey(calls[c].url, calls[c].rev))

\* a successful run that loaded a table with entries and prefetched a hash
\* for a key the table lacks
C14_Witness ==
    /\ pc = "done"
    /\ LoadedTable.kind = "object"
    /\ LoadedTable.entries # EmptyTable
    /\ project_hashes = LoadedTable
    /\ \E c \in Answered : ~KeyPresent(CacheKey(calls[c].url, calls[c].rev))

\* the path lies outside the workspace root
Outside(path) == ~IsPrefix(TopDir, path)

\* the destination is absolute or climbs out of the root
Escapes(text) == DOTDOT \in Range(text) \/ (text # << >> /\ Head(text) = SLASH)

(* C15: a run given a blob or a base-directory override outside the         *)
(* workspace root does not succeed, and no link operation printed has a    *)
(* destination that is absolute or contains "..".                          *)
C15_NoPathLeavesTheRoot ==
    /\ pc = "done" =>
          /\ \A b \in 1..Len(blobs) : ~Outside(blobs[b].abspath)
          /\ zephyr_base.set => ~Outside(zephyr_base.path)
    /\ \A f \in 2..Len(west_nix) :
          f - 1 <= Len(paths) => ~Escapes(paths[f - 1].path)

\* the number of links of projects in `paths`
ProjectLinks == Cardinality({ k \in Processed : manifest[k].active })

\* the text has the pieces at place k
HasAt(text, k, pieces) == SubSeq(text, k, k + Len(pieces) - 1) = pieces

(* C16: the links of the projects, which come first in `paths`, have       *)
(* is_dir true and are printed as a mkdir of the destination and an lndir  *)
(* into it; the links of the blobs have is_dir false and are printed as a  *)
(* mkdir of the parent of the destination and an ln -s at the destination. *)
(* What is printed is looked at once the printing of the links has ended.  *)
C16_KindsNeverSwapped ==
    /\ \A k \in 1..Len(paths) : paths[k].is_dir = (k <= ProjectLinks)
    /\ \A f \in 2..Len(west_nix) :
          ((pc \in { "cache", "done" } \/ error = "ValueError") /\ f - 1 <= Len(paths)) =>
              LET text == west_nix[f]
                  dest == paths[f - 1].path
                  made == IF paths[f - 1].is_dir THEN dest ELSE Parent(dest)
                  tool == IF paths[f - 1].is_dir
                          THEN "    lndir -silent \\" ELSE "    ln -s \\"
              IN  /\ HasAt(text, 2, << "    mkdir -p \"$out\"/", SQ >> \o made)
                  /\ HasAt(text, 4 + Len(made), << SQ, NL, tool, NL >>)
                  /\ HasAt(text, Len(text) - Len(dest) - 3,
                           (<< "        \"$out\"/", SQ >> \o dest) \o << SQ, NL >>)
                  /\ ~paths[f - 1].is_dir =>
                        dest = JoinText(RelPath(blobs[f - 1 - ProjectLinks].abspath,
                                                TopDir))

\* a successful run that printed the link of a project and the link of a blob
C16_Witness ==
    /\ pc = "done"
    /\ ProjectLinks >= 1
    /\ Len(blobs) >= 1
    /\ Len(westNixFile.text) >= 1 + ProjectLinks + Len(blobs)

(* C17: the west.nix a successful run leaves is a whole expression: the     *)
(* script string the preamble opens is closed at the end of the file, with *)
(* ZEPHYR_BASE set and without.                                            *)
C17_ExpressionIsClosed ==
    pc = "done" => Complete(westNixFile)

\* the "hash" that the cache file holds under the key, None without one
PersistedHash(file, key) ==
    IF /\ file.kind = "object"
       /\ file.project_hashes.kind = "object"
       /\ key \in DOMAIN file.project_hashes.entries
       /\ file.project_hashes.entries[key].kind = "object"
    THEN file.project_hashes.entries[key].hash
    ELSE None

(* C18: after a successful run, the fetch directive printed for each active *)
(* project with a url carries the hash that the cache file holds under the *)
(* project's cache key.                                                    *)
C18_DirectiveHashIsCachedHash ==
    pc = "done" =>
        \A k \in 1..Len(manifest) :
            Remote(k) =>
                westNixFile.text[1 + PathIndex(k)] =
                    RenderOp(LinkPath(PathStr(manifest[k].path),
                                      FetchgitSrc(manifest[k].url, manifest[k].revision,
                                                  PersistedHash(cacheFile, KeyOf(manifest[k]))),
                                      TRUE))

(* C19: a step that leaves a readable cache file leaves, under every key    *)
(* that an active project with a url refers to and that had a hash in the  *)
(* file, the hash it had: whatever the prefetch answers, a hash once       *)
(* stored changes only by way of a run that does not refer to its key.     *)
C19_StoredHashNeverChanges ==
    [][\A key \in ReferencedKeys :
           (PersistedHash(cacheFile, key) # None /\ cacheFile'.kind = "object") =>
               PersistedHash(cacheFile', key) = PersistedHash(cacheFile, key)]_vars

\* a successful run has written the cache again, with a key whose hash was
\* in the file before and is none of those the prefetch answers
C19_Witness ==
    /\ pc = "done"
    /\ \E key \in ReferencedKeys :
          /\ PersistedHash(before.cacheFile, key) = StoredHash
          /\ PersistedHash(cacheFile, key) = StoredHash
    /\ \E key \in ReferencedKeys : PersistedHash(before.cacheFile, key) = None

=============================================================================
